---- MODULE Spec2Model ----
(***************************************************************************)
(* Model of the desktop shell coordinator (desktop/src-tauri/src/main.rs): *)
(* the persisted configuration, the ConfigState shared by the commands,    *)
(* the window surfaces and the menu / tray / shortcut dispatch.            *)
(*                                                                         *)
(* Strings the code inspects (server_url) are sequences of one-character   *)
(* strings, so that starts_with and trim_end_matches are computed.         *)
(***************************************************************************)
EXTENDS Integers, Sequences, FiniteSets, TLC

\* ------------------------------------------------------------------ bounds
\* largest number of "/" appended to an input of set_server_url
MaxSlashes == 2
\* largest number of secondary windows alive or being built at one time
MaxWindows == 2
\* runs of setup_app_menu in one process
MaxSetups == 2
\* commands that run concurrently, one thread each
MaxThreads == 2
\* inject_titlebar tasks that run at the same time
MaxSchedules == 2

\* ----------------------------------------------------------------- strings
HTTP == <<"h","t","t","p",":","/","/">>
HTTPS == <<"h","t","t","p","s",":","/","/">>
FTP == <<"f","t","p",":","/","/">>
EmptyStr == <<>>

DEFAULT_SERVER_URL ==
  <<"h","t","t","p","s",":","/","/","c","l","o","u","d",".",
    "o","n","y","x",".","a","p","p">>

default_window_title == "Onyx"

\* str::starts_with
StartsWith(s, p) ==
  /\ Len(s) >= Len(p)
  /\ SubSeq(s, 1, Len(p)) = p

\* a trim that drops one trailing character only (str::strip_suffix)
trim_end_matches_once(s, c) ==
  IF s # <<>> /\ s[Len(s)] = c THEN SubSeq(s, 1, Len(s) - 1) ELSE s

\* str::trim_end_matches(c): drops the matching characters at the end, one at
\* a time, until the last character is not c
RECURSIVE trim_end_matches(_, _)
trim_end_matches(s, c) ==
  IF s # <<>> /\ s[Len(s)] = c
    THEN trim_end_matches(SubSeq(s, 1, Len(s) - 1), c)
    ELSE s

\* number of characters c at the end of s
RECURSIVE TrailingCount(_, _)
TrailingCount(s, c) ==
  IF s # <<>> /\ s[Len(s)] = c
    THEN 1 + TrailingCount(SubSeq(s, 1, Len(s) - 1), c)
    ELSE 0

Slashes(n) == [i \in 1..n |-> "/"]

\* the inputs of set_server_url that are explored
UrlPrefixes == {HTTP, HTTPS, FTP}
UrlBodies == {EmptyStr, <<"a">>}
UrlInputs ==
  {p \o b \o Slashes(n) : p \in UrlPrefixes, b \in UrlBodies, n \in 0..MaxSlashes}

\* ----------------------------------------------------------- configuration
AppConfig(url, title) == [server_url |-> url, window_title |-> title]

AppConfigDefault == AppConfig(DEFAULT_SERVER_URL, default_window_title)

\* the config file: absent, present but unreadable, present with content that
\* is not a JSON object, or a JSON object with the keys named in keys
FileAbsent ==
  [kind |-> "absent", keys |-> {}, server_url |-> EmptyStr, window_title |-> ""]
FileUnreadable ==
  [kind |-> "unreadable", keys |-> {}, server_url |-> EmptyStr, window_title |-> ""]
FileMalformed ==
  [kind |-> "malformed", keys |-> {}, server_url |-> EmptyStr, window_title |-> ""]
FileJson(keys, url, title) ==
  [kind |-> "json", keys |-> keys,
   server_url |-> IF "server_url" \in keys THEN url ELSE EmptyStr,
   window_title |-> IF "window_title" \in keys THEN title ELSE ""]

\* a serialisation that leaves the window title out
Serialize_noTitle(config) ==
  FileJson({"server_url"}, config.server_url, config.window_title)

\* serde_json::to_string_pretty of an AppConfig: both keys are written
Serialize(config) ==
  FileJson({"server_url", "window_title"}, config.server_url, config.window_title)

\* the files a process may find at startup
StartUrls == {HTTP \o <<"a">>, EmptyStr}
StartFiles ==
  {FileAbsent, FileUnreadable, FileMalformed}
    \cup {FileJson(k, u, "T") : k \in SUBSET {"server_url", "window_title"},
                                u \in StartUrls}

\* get_config_path().exists()
PathExists(dirOK, f) == dirOK /\ f.kind # "absent"

\* a load that reports a file it could not parse as existing
load_config_malformedExists(dirOK, f) ==
  IF ~dirOK \/ f.kind = "absent" \/ f.kind = "unreadable"
    THEN [config |-> AppConfigDefault, existed |-> FALSE]
  ELSE IF f.kind = "json" /\ "server_url" \in f.keys
    THEN [config |-> AppConfig(f.server_url,
                               IF "window_title" \in f.keys
                                 THEN f.window_title
                                 ELSE default_window_title),
          existed |-> TRUE]
  ELSE [config |-> AppConfigDefault, existed |-> TRUE]

\* load_config: the configuration and whether the file was read and parsed
load_config(dirOK, f) ==
  IF ~dirOK
    THEN [config |-> AppConfigDefault, existed |-> FALSE]
  ELSE IF ~PathExists(dirOK, f)
    THEN [config |-> AppConfigDefault, existed |-> FALSE]
  ELSE IF f.kind = "unreadable"
    THEN [config |-> AppConfigDefault, existed |-> FALSE]
  ELSE IF f.kind = "json" /\ "server_url" \in f.keys
    THEN [config |-> AppConfig(f.server_url,
                               IF "window_title" \in f.keys
                                 THEN f.window_title
                                 ELSE default_window_title),
          existed |-> TRUE]
  ELSE [config |-> AppConfigDefault, existed |-> FALSE]

\* save_config: every outcome of one call, as the result and the file left
\* behind.  Without a config directory the call fails at once; creating the
\* directory or opening the file may fail and leave the file as it was; a
\* write that fails part-way leaves a truncated file.
save_config(dirOK, f, config) ==
  IF ~dirOK
    THEN {[ok |-> FALSE, file |-> f]}
    ELSE {[ok |-> FALSE, file |-> f],
          [ok |-> FALSE, file |-> FileMalformed],
          [ok |-> TRUE, file |-> Serialize(config)]}

\* a validation that lets any "<scheme>://" input through
UrlRejected_anyScheme(url) ==
  ~StartsWith(url, HTTP) /\ ~StartsWith(url, HTTPS) /\ ~StartsWith(url, FTP)

\* the validation of set_server_url: TRUE when the input is rejected
UrlRejected(url) == ~StartsWith(url, HTTP) /\ ~StartsWith(url, HTTPS)

\* ------------------------------------------------------------------- URLs
\* position of the first ":" of s, 0 when there is none
FirstColon(s) ==
  IF \E i \in 1..Len(s) : s[i] = ":"
    THEN CHOOSE i \in 1..Len(s) : s[i] = ":" /\ \A j \in 1..(i - 1) : s[j] # ":"
    ELSE 0

\* the characters of s after its leading "/" characters
RECURSIVE SkipSlashes(_)
SkipSlashes(s) ==
  IF s # <<>> /\ s[1] = "/" THEN SkipSlashes(Tail(s)) ELSE s

SpecialSchemes == {<<"h","t","t","p">>, <<"h","t","t","p","s">>, <<"f","t","p">>}

\* server_url.parse::<Url>() succeeds: the string has a scheme, and for the
\* special schemes (http, https, ftp) a non-empty host follows the slashes
UrlParses(s) ==
  LET c == FirstColon(s) IN
    /\ c > 1
    /\ \A i \in 1..(c - 1) : s[i] \notin {"/", ".", ":"}
    /\ LET scheme == SubSeq(s, 1, c - 1)
           rest == SkipSlashes(SubSeq(s, c + 1, Len(s)))
       IN scheme \in SpecialSchemes => (rest # <<>> /\ rest[1] # ":")

\* a parsed Url; query and fragment "" stand for None
Url(scheme, host, path, query, fragment) ==
  [scheme |-> scheme, host |-> host, path |-> path, query |-> query,
   fragment |-> fragment]

set_query(u, q) == [u EXCEPT !.query = q]
set_fragment(u, f) == [u EXCEPT !.fragment = f]
set_path(u, p) == [u EXCEPT !.path = p]

\* Option<Url>
NoneUrl == [some |-> FALSE, url |-> Url("", "", "", "", "")]
SomeUrl(u) == [some |-> TRUE, url |-> u]

\* the URLs window.url() may report for the main window during setup
MainWindowUrls ==
  {Url("https", "cloud.onyx.app", "/chat", "q", "f")}

\* Url::parse("tauri://localhost/#settings")
SettingsPlaceholder == Url("tauri", "localhost", "/", "", "settings")

\* ----------------------------------------------------------------- windows
\* window labels: 0 is "main", 1..MaxWindows are the "onyx-<uuid>" labels
MAIN == 0
NoWindow == -1
SecondaryLabels == 1..MaxWindows

Platforms == {"macos", "linux", "windows"}

VARIABLES
  platform,            \* target_os of the build
  dirOK,               \* get_config_dir() is Some
  file,                \* the config file
  pc,                  \* "start", "running", "exited" or "aborted"
  config,              \* ConfigState.config
  config_initialized,  \* ConfigState.config_initialized
  app_base_url,        \* ConfigState.app_base_url
  windows,             \* labels of the live window surfaces
  focused,             \* label of the focused window, or NoWindow
  mainLoc,             \* what the main window was last told to show
  tasks,               \* spawned window-creation tasks that have not run yet
  menu,                \* the application menu: its submenus and their items
  trayMenu,            \* the items of the tray menu, once built
  schedules,           \* the inject_titlebar tasks that are still running
  threads,             \* the commands that run step by step, one per thread
  guards,              \* the lock guards each thread holds
  last                 \* the step just taken: operation, input and result

vars ==
  <<platform, dirOK, file, pc, config, config_initialized, app_base_url,
    windows, focused, mainLoc, tasks, menu, trayMenu, schedules, threads,
    guards, last>>

envVars == <<platform, dirOK>>
storeVars == <<file, config, config_initialized>>
shellVars == <<windows, focused, mainLoc, tasks>>
auxVars == <<menu, trayMenu, schedules, threads, guards>>
concVars == <<threads, guards>>

\* a chord of the global-shortcut plugin, and the absence of one
Shortcut(mods, code) == [mods |-> mods, code |-> code]
NoChord == Shortcut({}, "-")

\* what a step reports in last
Step(op, url, res, outUrl, outFlag, actions) ==
  [op |-> op, url |-> url, res |-> res, out_url |-> outUrl,
   out_flag |-> outFlag, actions |-> actions, origin |-> "-",
   window |-> NoWindow, chord |-> NoChord, step |-> 0, time |-> 0]

\* ------------------------------------------------------- application menu
\* a menu is the sequence of its submenus; a submenu has an id, a title and
\* the ids of its items in order
HELP_SUBMENU_ID == "__tauri_help_menu__"
Submenu(id, text, items) == [id |-> id, text |-> text, items |-> items]

\* the menus app.menu().unwrap_or(Menu::default(app)) can hand to
\* setup_app_menu: the default one, with a File and a Help submenu, and hosts
\* that lack one or both
DefaultMenu ==
  <<Submenu("file", "File", <<"close_window">>),
    Submenu(HELP_SUBMENU_ID, "Help", <<>>)>>
HostMenus ==
  {DefaultMenu,
   <<Submenu("file", "File", <<"close_window">>)>>,
   <<Submenu(HELP_SUBMENU_ID, "Help", <<>>)>>,
   <<>>}

\* index of the first submenu of m titled File, or 0
FindFile(m) ==
  IF \E k \in DOMAIN m : m[k].text = "File"
    THEN CHOOSE k \in DOMAIN m :
           /\ m[k].text = "File"
           /\ \A j \in 1..(k - 1) : m[j].text # "File"
    ELSE 0

\* menu.get(id): index of the first submenu of m with that id, or 0
MenuGet(m, id) ==
  IF \E k \in DOMAIN m : m[k].id = id
    THEN CHOOSE k \in DOMAIN m :
           /\ m[k].id = id
           /\ \A j \in 1..(k - 1) : m[j].id # id
    ELSE 0

\* setup_app_menu: the three shell items go to the front of the submenu
\* titled File, or a File submenu is built and prepended; the documentation
\* item goes to the end of the Help submenu, or one is built and appended
setup_app_menu(m) ==
  LET shellItems == <<"new_chat", "new_window", "open_settings">>
      f == FindFile(m)
      withFile ==
        IF f # 0
          THEN [m EXCEPT ![f].items = shellItems \o @]
          ELSE <<Submenu("file", "File", shellItems \o <<"close_window">>)>> \o m
      h == MenuGet(withFile, HELP_SUBMENU_ID)
  IN IF h # 0
       THEN [withFile EXCEPT ![h].items = Append(@, "open_docs")]
       ELSE Append(withFile, Submenu(HELP_SUBMENU_ID, "Help", <<"open_docs">>))

\* how often the item id occurs in the items of a submenu
Occurrences(items, id) == Cardinality({k \in DOMAIN items : items[k] = id})

\* -------------------------------------------------------------- tray menu
TRAY_MENU_OPEN_APP_ID == "tray_open_app"
TRAY_MENU_OPEN_CHAT_ID == "tray_open_chat"
TRAY_MENU_SHOW_IN_BAR_ID == "tray_show_in_menu_bar"
TRAY_MENU_QUIT_ID == "tray_quit"

MenuItem(id, enabled) ==
  [id |-> id, kind |-> "item", enabled |-> enabled, checked |-> FALSE]
CheckMenuItem(id, enabled, checked) ==
  [id |-> id, kind |-> "check", enabled |-> enabled, checked |-> checked]
PredefinedMenuItem(id) ==
  [id |-> id, kind |-> "predefined", enabled |-> TRUE, checked |-> FALSE]
set_enabled(item, enabled) == [item EXCEPT !.enabled = enabled]

\* a tray menu whose check item is left enabled
build_tray_menu_leftEnabled ==
  <<MenuItem(TRAY_MENU_OPEN_APP_ID, TRUE),
    MenuItem(TRAY_MENU_OPEN_CHAT_ID, TRUE),
    CheckMenuItem(TRAY_MENU_SHOW_IN_BAR_ID, TRUE, TRUE),
    PredefinedMenuItem("quit")>>

\* build_tray_menu: the items in order, separators left out; the check item
\* is created enabled and checked and then disabled
build_tray_menu ==
  LET show_in_menu_bar ==
        set_enabled(CheckMenuItem(TRAY_MENU_SHOW_IN_BAR_ID, TRUE, TRUE), FALSE)
  IN <<MenuItem(TRAY_MENU_OPEN_APP_ID, TRUE),
       MenuItem(TRAY_MENU_OPEN_CHAT_ID, TRUE),
       show_in_menu_bar,
       PredefinedMenuItem("quit")>>

\* what the platform does to the menu when the item id is clicked: a check
\* item flips its mark, any other item stays as it is
Clicked(tm, id) ==
  [k \in DOMAIN tm |->
     IF tm[k].id = id /\ tm[k].kind = "check"
       THEN [tm[k] EXCEPT !.checked = ~@]
       ELSE tm[k]]

\* the item id of the tray menu can be clicked
Clickable(tm, id) ==
  \E k \in DOMAIN tm : tm[k].id = id /\ tm[k].enabled

\* ------------------------------------------------------ titlebar injection
\* inject_titlebar: the table of delays, and the task it spawns for a window;
\* step is the index of the delay the task sleeps next, elapsed the time it
\* has slept since it was spawned
delays == <<0, 200, 600, 1200, 2000, 4000, 6000, 8000, 10000>>
inject_titlebar(sch, w) ==
  sch \cup {[window |-> w, step |-> 1, elapsed |-> 0]}

\* ------------------------------------------------------------- threads
\* a command that runs step by step: its name, the step it is at, its input,
\* what it has read so far, its result, and the pairs (server_url,
\* config_exists) the store has held since the command was called
Threads == 1..MaxThreads
IdleThread ==
  [op |-> "-", pc |-> "idle", url |-> EmptyStr, got_url |-> EmptyStr,
   got_flag |-> FALSE, res |-> "-", snaps |-> {}]

\* the pair get_bootstrap_state reports, as the store holds it
BootstrapPair(cfg, init, dir, f) ==
  [server_url |-> cfg.server_url, config_exists |-> init /\ PathExists(dir, f)]

\* locations of the main window
LocInitial == [kind |-> "initial", href |-> EmptyStr, url |-> NoneUrl.url]
LocHref(h) == [kind |-> "href", href |-> h, url |-> NoneUrl.url]
LocUrl(u) == [kind |-> "url", href |-> EmptyStr, url |-> u]

Init ==
  /\ platform \in Platforms
  /\ dirOK \in BOOLEAN
  /\ file \in StartFiles
  /\ dirOK = FALSE => file = FileAbsent
  /\ pc = "start"
  /\ config = AppConfigDefault
  /\ config_initialized = FALSE
  /\ app_base_url = NoneUrl
  /\ windows \in {{}, {MAIN}}
  /\ focused = NoWindow
  /\ mainLoc = LocInitial
  /\ tasks = <<>>
  /\ menu \in HostMenus
  /\ trayMenu = <<>>
  /\ schedules = {}
  /\ threads = [t \in Threads |-> IdleThread]
  /\ guards = [t \in Threads |-> {}]
  /\ last = Step("none", EmptyStr, "-", EmptyStr, FALSE, <<>>)

\* main: the startup load, the construction of ConfigState and the setup
\* callback (application menu, tray, capture of the base URL from the main
\* window, titlebar injection on macOS, focus)
main ==
  /\ pc = "start"
  /\ pc' = "running"
  /\ LET l == load_config(dirOK, file) IN
       /\ config' = l.config
       /\ config_initialized' = l.existed
  /\ IF MAIN \in windows
       THEN /\ \/ \E u \in MainWindowUrls :
                    app_base_url' =
                      SomeUrl(set_path(set_fragment(set_query(u, ""), ""), "/"))
               \/ app_base_url' = NoneUrl
            /\ focused' = MAIN
       ELSE /\ app_base_url' = NoneUrl
            /\ focused' = focused
  /\ menu' = setup_app_menu(menu)
  /\ trayMenu' = build_tray_menu
  /\ schedules' = IF platform = "macos" /\ MAIN \in windows
                    THEN inject_titlebar(schedules, MAIN)
                    ELSE schedules
  /\ last' = Step("main", EmptyStr, "-", EmptyStr, FALSE, <<>>)
  /\ UNCHANGED <<concVars, envVars, file, windows, mainLoc, tasks>>

\* commands are invoked by the content of a window
CanInvoke == pc = "running" /\ windows # {}

get_server_url ==
  /\ CanInvoke
  /\ last' = Step("get_server_url", EmptyStr, "Ok", config.server_url, FALSE, <<>>)
  /\ UNCHANGED <<auxVars, envVars, storeVars, shellVars, pc, app_base_url>>

get_bootstrap_state ==
  /\ CanInvoke
  /\ LET server_url == config.server_url
         config_exists == config_initialized /\ PathExists(dirOK, file)
     IN last' = Step("get_bootstrap_state", EmptyStr, "Ok", server_url,
                     config_exists, <<>>)
  /\ UNCHANGED <<auxVars, envVars, storeVars, shellVars, pc, app_base_url>>

\* a set_server_url that never marks the configuration initialized
set_server_url_noFlag(url) ==
  /\ CanInvoke
  /\ IF UrlRejected(url)
       THEN /\ last' = Step("set_server_url", url, "Err", EmptyStr, FALSE, <<>>)
            /\ UNCHANGED storeVars
       ELSE /\ config' = [config EXCEPT !.server_url = trim_end_matches(url, "/")]
            /\ config_initialized' = config_initialized
            /\ \E r \in save_config(dirOK, file, config') :
                 /\ file' = r.file
                 /\ last' = IF r.ok
                              THEN Step("set_server_url", url, "Ok",
                                        config'.server_url, FALSE, <<>>)
                              ELSE Step("set_server_url", url, "Err", EmptyStr,
                                        FALSE, <<>>)
  /\ UNCHANGED <<auxVars, envVars, shellVars, pc, app_base_url>>

\* a set_server_url that marks the configuration initialized before it saves
set_server_url_flagFirst(url) ==
  /\ CanInvoke
  /\ IF UrlRejected(url)
       THEN /\ last' = Step("set_server_url", url, "Err", EmptyStr, FALSE, <<>>)
            /\ UNCHANGED storeVars
       ELSE /\ config' = [config EXCEPT !.server_url = trim_end_matches(url, "/")]
            /\ config_initialized' = TRUE
            /\ \E r \in save_config(dirOK, file, config') :
                 /\ file' = r.file
                 /\ last' = IF r.ok
                              THEN Step("set_server_url", url, "Ok",
                                        config'.server_url, FALSE, <<>>)
                              ELSE Step("set_server_url", url, "Err", EmptyStr,
                                        FALSE, <<>>)
  /\ UNCHANGED <<auxVars, envVars, shellVars, pc, app_base_url>>

set_server_url(url) ==
  /\ CanInvoke
  /\ IF UrlRejected(url)
       THEN /\ last' = Step("set_server_url", url, "Err", EmptyStr, FALSE, <<>>)
            /\ UNCHANGED storeVars
       ELSE /\ config' = [config EXCEPT !.server_url = trim_end_matches(url, "/")]
            /\ \E r \in save_config(dirOK, file, config') :
                 /\ file' = r.file
                 /\ IF r.ok
                      THEN /\ config_initialized' = TRUE
                           /\ last' = Step("set_server_url", url, "Ok",
                                           config'.server_url, FALSE, <<>>)
                      ELSE /\ config_initialized' = config_initialized
                           /\ last' = Step("set_server_url", url, "Err",
                                           EmptyStr, FALSE, <<>>)
  /\ UNCHANGED <<auxVars, envVars, shellVars, pc, app_base_url>>

\* a reset that restores the server_url and keeps the window title
reset_config_keepTitle ==
  /\ CanInvoke
  /\ config' = [config EXCEPT !.server_url = DEFAULT_SERVER_URL]
  /\ \E r \in save_config(dirOK, file, config') :
       /\ file' = r.file
       /\ IF r.ok
            THEN /\ config_initialized' = TRUE
                 /\ last' = Step("reset_config", EmptyStr, "Ok", EmptyStr, FALSE, <<>>)
            ELSE /\ config_initialized' = config_initialized
                 /\ last' = Step("reset_config", EmptyStr, "Err", EmptyStr, FALSE, <<>>)
  /\ UNCHANGED <<auxVars, envVars, shellVars, pc, app_base_url>>

reset_config ==
  /\ CanInvoke
  /\ config' = AppConfigDefault
  /\ \E r \in save_config(dirOK, file, config') :
       /\ file' = r.file
       /\ IF r.ok
            THEN /\ config_initialized' = TRUE
                 /\ last' = Step("reset_config", EmptyStr, "Ok", EmptyStr, FALSE, <<>>)
            ELSE /\ config_initialized' = config_initialized
                 /\ last' = Step("reset_config", EmptyStr, "Err", EmptyStr, FALSE, <<>>)
  /\ UNCHANGED <<auxVars, envVars, shellVars, pc, app_base_url>>

\* open_config_file: writes the default file when none exists, then starts
\* the editor (which may fail to start)
open_config_file ==
  /\ CanInvoke
  /\ IF ~dirOK
       THEN /\ file' = file
            /\ last' = Step("open_config_file", EmptyStr, "Err", EmptyStr, FALSE, <<>>)
       ELSE IF ~PathExists(dirOK, file)
         THEN \E r \in save_config(dirOK, file, AppConfigDefault) :
                /\ file' = r.file
                /\ \E res \in (IF r.ok THEN {"Ok", "Err"} ELSE {"Err"}) :
                     last' = Step("open_config_file", EmptyStr, res, EmptyStr,
                                  FALSE, <<>>)
         ELSE /\ file' = file
              /\ \E res \in {"Ok", "Err"} :
                   last' = Step("open_config_file", EmptyStr, res, EmptyStr,
                                FALSE, <<>>)
  /\ UNCHANGED <<auxVars, envVars, config, config_initialized, shellVars, pc, app_base_url>>

\* ------------------------------------------------------- the shell actions
CHAT == <<"/","c","h","a","t">>

\* the part of the state the shell actions read and change
ShellState ==
  [config |-> config, app_base_url |-> app_base_url, windows |-> windows,
   focused |-> focused, mainLoc |-> mainLoc, tasks |-> tasks, pc |-> pc]

\* trigger_new_window: copies server_url and spawns the task that builds the
\* window; origin names the caller
trigger_new_window(st, origin) ==
  [st EXCEPT !.tasks = Append(@, [url |-> st.config.server_url,
                                  origin |-> origin])]

\* a focus that gives up when there is no main window
focus_main_window_noFallback(st) ==
  IF MAIN \in st.windows THEN [st EXCEPT !.focused = MAIN] ELSE st

focus_main_window(st) ==
  IF MAIN \in st.windows
    THEN [st EXCEPT !.focused = MAIN]
    ELSE trigger_new_window(st, "focus_main")

trigger_new_chat(st) ==
  LET server_url == st.config.server_url IN
    IF MAIN \in st.windows
      THEN [st EXCEPT !.mainLoc = LocHref(server_url \o CHAT)]
      ELSE st

\* an open_settings that leaves the fragment of the base URL as it is
open_settings_noFragment(st) ==
  LET settings_url ==
        IF st.app_base_url.some
          THEN set_path(set_query(st.app_base_url.url, ""), "/")
          ELSE SettingsPlaceholder
  IN IF MAIN \in st.windows
       THEN [st EXCEPT !.mainLoc = LocUrl(settings_url)]
       ELSE st

open_settings(st) ==
  LET settings_url ==
        IF st.app_base_url.some
          THEN set_path(set_fragment(set_query(st.app_base_url.url, ""),
                                     "settings"), "/")
          ELSE SettingsPlaceholder
  IN IF MAIN \in st.windows
       THEN [st EXCEPT !.mainLoc = LocUrl(settings_url)]
       ELSE st

\* app.exit(0)
quit(st) == [st EXCEPT !.pc = "exited"]

\* the shell actions of the router, by name
ShellActions ==
  {"focus_main", "trigger_new_chat", "open_new_window", "navigate_settings",
   "reload_main", "history_back", "history_forward", "open_config_file",
   "open_docs", "quit"}

\* one shell action applied to the shell state; reload and the history moves
\* are scripts evaluated inside the page and open_docs starts a browser
DoAction(a, st) ==
  CASE a = "focus_main" -> focus_main_window(st)
    [] a = "trigger_new_chat" -> trigger_new_chat(st)
    [] a = "open_new_window" -> trigger_new_window(st, "new_window")
    [] a = "navigate_settings" -> open_settings(st)
    [] a = "quit" -> quit(st)
    [] OTHER -> st

RECURSIVE DoActions(_, _)
DoActions(as, st) ==
  IF as = <<>> THEN st ELSE DoActions(Tail(as), DoAction(Head(as), st))

\* ------------------------------------------------------------------ menus
\* ids of the items setup_app_menu adds to the File and Help submenus
MenuItemIds == {"new_chat", "new_window", "open_settings", "open_docs"}

\* on_menu_event of the application menu
MenuArms == {"open_docs", "new_chat", "new_window", "open_settings"}
on_menu_event(id) ==
  CASE id = "open_docs" -> <<"open_docs">>
    [] id = "new_chat" -> <<"trigger_new_chat">>
    [] id = "new_window" -> <<"open_new_window">>
    [] id = "open_settings" -> <<"navigate_settings">>
    [] OTHER -> <<>>

\* build_tray_menu: the items with an id of their own, and whether each can
\* be clicked; the quit item is the predefined one, which the platform runs
TrayItems ==
  {[id |-> TRAY_MENU_OPEN_APP_ID, enabled |-> TRUE],
   [id |-> TRAY_MENU_OPEN_CHAT_ID, enabled |-> TRUE],
   [id |-> TRAY_MENU_SHOW_IN_BAR_ID, enabled |-> FALSE]}
TrayItemIds == {i.id : i \in TrayItems}
TrayPredefined == {"quit"}

TrayArms ==
  {TRAY_MENU_OPEN_APP_ID, TRAY_MENU_OPEN_CHAT_ID, TRAY_MENU_QUIT_ID,
   TRAY_MENU_SHOW_IN_BAR_ID}
handle_tray_menu_event(id) ==
  CASE id = TRAY_MENU_OPEN_APP_ID -> <<"focus_main">>
    [] id = TRAY_MENU_OPEN_CHAT_ID -> <<"focus_main", "trigger_new_chat">>
    [] id = TRAY_MENU_QUIT_ID -> <<"quit">>
    [] id = TRAY_MENU_SHOW_IN_BAR_ID -> <<>>
    [] OTHER -> <<>>

\* -------------------------------------------------------------- shortcuts
new_chat == Shortcut({"SUPER"}, "KeyN")
reload == Shortcut({"SUPER"}, "KeyR")
back == Shortcut({"SUPER"}, "BracketLeft")
forward == Shortcut({"SUPER"}, "BracketRight")
new_window_shortcut == Shortcut({"SUPER", "SHIFT"}, "KeyN")
show_app == Shortcut({"SUPER", "SHIFT"}, "Space")
open_settings_shortcut == Shortcut({"SUPER"}, "Comma")

\* the chords setup_shortcuts registers on a platform
shortcuts(os) ==
  IF os = "macos"
    THEN {new_chat, back, forward, new_window_shortcut, show_app,
          open_settings_shortcut}
    ELSE {new_chat, reload, back, forward, new_window_shortcut, show_app,
          open_settings_shortcut}

\* the handler of setup_shortcuts: the shell actions one chord runs
on_shortcut(shortcut, hasMain) ==
  (IF shortcut = new_chat THEN <<"trigger_new_chat">> ELSE <<>>)
  \o (IF hasMain
        THEN IF shortcut = reload THEN <<"reload_main">>
             ELSE IF shortcut = back THEN <<"history_back">>
             ELSE IF shortcut = forward THEN <<"history_forward">>
             ELSE IF shortcut = open_settings_shortcut THEN <<"navigate_settings">>
             ELSE <<>>
        ELSE <<>>)
  \o (IF shortcut = new_window_shortcut THEN <<"open_new_window">>
      ELSE IF shortcut = show_app THEN <<"focus_main">>
      ELSE <<>>)

\* ------------------------------------------------------------ the events
\* number of secondary windows alive or about to be built
Load(st) == Len(st.tasks) + Cardinality(st.windows \ {MAIN})

\* an event handler that runs the shell actions as; chord is the chord of
\* a shortcut event, tray the tray menu as the platform leaves it
DispatchFrom(op, as, chord, tray) ==
  /\ pc = "running"
  /\ trayMenu' = tray
  /\ LET st == DoActions(as, ShellState) IN
       /\ Load(st) <= MaxWindows
       /\ focused' = st.focused
       /\ mainLoc' = st.mainLoc
       /\ tasks' = st.tasks
       /\ pc' = st.pc
  /\ last' = [Step(op, EmptyStr, "-", EmptyStr, FALSE, as) EXCEPT !.chord = chord]
  /\ UNCHANGED <<menu, schedules, concVars, envVars, storeVars, app_base_url, windows>>

Dispatch(op, as) == DispatchFrom(op, as, NoChord, trayMenu)

MenuEvent(id) == Dispatch("menu", on_menu_event(id))

\* a click on an enabled item of the tray menu: the platform updates the
\* item, then on_menu_event of the tray runs
TrayMenuEvent(id) ==
  /\ Clickable(trayMenu, id)
  /\ DispatchFrom("tray", handle_tray_menu_event(id), NoChord,
                  Clicked(trayMenu, id))

\* on_tray_icon_event: a click on the tray icon
TrayIconClick == Dispatch("tray_click", <<"focus_main">>)

\* the predefined quit item of the tray menu ends the process
TrayQuit ==
  /\ pc = "running"
  /\ pc' = "exited"
  /\ last' = Step("tray_quit_item", EmptyStr, "-", EmptyStr, FALSE, <<>>)
  /\ UNCHANGED <<auxVars, envVars, storeVars, app_base_url, shellVars>>

ShortcutFired(s) ==
  DispatchFrom("shortcut", on_shortcut(s, MAIN \in windows), s, trayMenu)

\* the schedules after a window w was built: the macOS build calls
\* inject_titlebar on it
InjectOnMac(w) ==
  IF platform = "macos" THEN inject_titlebar(schedules, w) ELSE schedules

\* a label no live window has: "onyx-" followed by a fresh uuid
FreshLabel == CHOOSE l \in SecondaryLabels : l \notin windows

RemoveAt(q, i) == SubSeq(q, 1, i - 1) \o SubSeq(q, i + 1, Len(q))

\* the task spawned by trigger_new_window runs: unwrap of the parse panics
\* on a server_url that is no URL (the process goes on when the runtime
\* catches the panic and ends when the build aborts on panic); a failed
\* build is dropped; a built window is focused
NewWindowTask(i) ==
  /\ pc = "running"
  /\ i \in 1..Len(tasks)
  /\ tasks' = RemoveAt(tasks, i)
  /\ LET t == tasks[i]
         step(res, w) == [Step("window_task", t.url, res, EmptyStr, FALSE, <<>>)
                            EXCEPT !.origin = t.origin, !.window = w]
     IN IF ~UrlParses(t.url)
          THEN /\ pc' \in {"running", "aborted"}
               /\ last' = step("panicked", NoWindow)
               /\ UNCHANGED <<windows, focused, schedules>>
          ELSE \/ /\ windows' = windows \cup {FreshLabel}
                  /\ focused' = FreshLabel
                  /\ schedules' = InjectOnMac(FreshLabel)
                  /\ last' = step("built", FreshLabel)
                  /\ pc' = pc
               \/ /\ last' = step("failed", NoWindow)
                  /\ UNCHANGED <<windows, focused, pc, schedules>>
  /\ UNCHANGED <<menu, trayMenu, concVars, envVars, storeVars, app_base_url, mainLoc>>

\* the new_window command: a server_url that is no URL and a failed build are
\* returned as errors; the built window takes the focus as new windows do
new_window ==
  /\ CanInvoke
  /\ Load(ShellState) < MaxWindows
  /\ IF ~UrlParses(config.server_url)
       THEN /\ last' = Step("new_window", config.server_url, "Err", EmptyStr,
                            FALSE, <<>>)
            /\ UNCHANGED <<windows, focused, schedules>>
       ELSE \/ /\ windows' = windows \cup {FreshLabel}
               /\ focused' = FreshLabel
               /\ schedules' = InjectOnMac(FreshLabel)
               /\ last' = [Step("new_window", config.server_url, "Ok", EmptyStr,
                               FALSE, <<>>) EXCEPT !.window = FreshLabel]
            \/ /\ last' = Step("new_window", config.server_url, "Err", EmptyStr,
                               FALSE, <<>>)
               /\ UNCHANGED <<windows, focused, schedules>>
  /\ UNCHANGED <<menu, trayMenu, concVars, envVars, storeVars, app_base_url, mainLoc, tasks,
                 pc>>

\* navigate_to: window.location.href = server_url + path in the calling
\* window
NavPaths == {CHAT}
navigate_to(w, path) ==
  /\ CanInvoke
  /\ w \in windows
  /\ LET base_url == config.server_url IN
       mainLoc' = IF w = MAIN THEN LocHref(base_url \o path) ELSE mainLoc
  /\ last' = [Step("navigate_to", config.server_url \o path, "-", EmptyStr,
                   FALSE, <<>>) EXCEPT !.window = w]
  /\ UNCHANGED <<auxVars, envVars, storeVars, app_base_url, windows, focused, tasks, pc>>

\* the host closes a window at the user's request
CloseWindow(w) ==
  /\ pc = "running"
  /\ w \in windows
  /\ windows' = windows \ {w}
  /\ focused' = IF focused = w THEN NoWindow ELSE focused
  /\ mainLoc' = IF w = MAIN THEN LocInitial ELSE mainLoc
  /\ last' = [Step("close", EmptyStr, "-", EmptyStr, FALSE, <<>>)
                EXCEPT !.window = w]
  /\ UNCHANGED <<auxVars, envVars, storeVars, app_base_url, tasks, pc>>

\* a task that gives up at the first attempt that fails
InjectStep_stopsOnFailure(s) ==
  /\ pc = "running"
  /\ s \in schedules
  /\ LET delay == delays[s.step]
         slept == s.elapsed + delay
     IN /\ schedules' =
             (schedules \ {s}) \cup
               (IF s.step < Len(delays) /\ s.window \in windows
                  THEN {[s EXCEPT !.step = @ + 1, !.elapsed = slept]}
                  ELSE {})
        /\ last' = [Step("inject", EmptyStr,
                         IF s.window \in windows THEN "injected" ELSE "failed",
                         EmptyStr, FALSE, <<>>)
                      EXCEPT !.window = s.window, !.step = s.step,
                             !.time = slept]
  /\ UNCHANGED <<menu, trayMenu, concVars, envVars, storeVars, app_base_url,
                 shellVars, pc>>

\* one turn of the loop of an inject_titlebar task: it sleeps the next delay
\* of the table, then evaluates the script in its window, which fails
\* without consequence when the window is gone; after the last delay the
\* task ends
InjectStep(s) ==
  /\ pc = "running"
  /\ s \in schedules
  /\ LET delay == delays[s.step]
         slept == s.elapsed + delay
     IN /\ schedules' =
             (schedules \ {s}) \cup
               (IF s.step < Len(delays)
                  THEN {[s EXCEPT !.step = @ + 1, !.elapsed = slept]}
                  ELSE {})
        /\ last' = [Step("inject", EmptyStr,
                         IF s.window \in windows THEN "injected" ELSE "failed",
                         EmptyStr, FALSE, <<>>)
                      EXCEPT !.window = s.window, !.step = s.step,
                             !.time = slept]
  /\ UNCHANGED <<menu, trayMenu, concVars, envVars, storeVars, app_base_url, shellVars, pc>>

\* a page load that starts an inject_titlebar task
PageLoad_rearm(w) ==
  /\ pc = "running"
  /\ w \in windows
  /\ schedules' = InjectOnMac(w)
  /\ last' = [Step("page_load", EmptyStr,
                   IF platform = "macos" THEN "injected" ELSE "-",
                   EmptyStr, FALSE, <<>>) EXCEPT !.window = w]
  /\ UNCHANGED <<menu, trayMenu, concVars, envVars, storeVars, app_base_url, shellVars, pc>>

\* on_page_load: a window has loaded a page; the macOS build evaluates the
\* titlebar script in it once
PageLoad(w) ==
  /\ pc = "running"
  /\ w \in windows
  /\ schedules' = schedules
  /\ last' = [Step("page_load", EmptyStr,
                   IF platform = "macos" THEN "injected" ELSE "-",
                   EmptyStr, FALSE, <<>>) EXCEPT !.window = w]
  /\ UNCHANGED <<menu, trayMenu, concVars, envVars, storeVars, app_base_url, shellVars, pc>>

\* setup_app_menu runs once more in the running process, on the menu the
\* application has by then
SetupAppMenu ==
  /\ pc = "running"
  /\ MenuGet(menu, HELP_SUBMENU_ID) # 0
  /\ Occurrences(menu[MenuGet(menu, HELP_SUBMENU_ID)].items, "open_docs")
       < MaxSetups
  /\ menu' = setup_app_menu(menu)
  /\ last' = Step("setup_app_menu", EmptyStr, "-", EmptyStr, FALSE, <<>>)
  /\ UNCHANGED <<trayMenu, schedules, concVars, envVars, storeVars, app_base_url,
                 shellVars, pc>>

\* ------------------------------------------- commands, one step at a time
\* the threads after thread t has taken a step that leaves it as th: every
\* get_bootstrap_state call under way also records the pair the store holds
\* after the step
Observed(t, th, cfg, init, f) ==
  LET ts == [threads EXCEPT ![t] = th] IN
    [u \in Threads |->
       IF ts[u].op = "get_bootstrap_state" /\ ts[u].pc \notin {"idle", "done"}
         THEN [ts[u] EXCEPT !.snaps = @ \cup {BootstrapPair(cfg, init, dirOK, f)}]
         ELSE ts[u]]

Done(th, res) == [th EXCEPT !.pc = "done", !.res = res]

\* the commands that take config.write() and persist under it
LockingCommands == {"set_server_url", "reset_config"}
ConcCommands == LockingCommands \cup {"get_bootstrap_state", "open_config_file"}

\* the commands and event handlers that copy server_url under config.read()
ConfigReaders ==
  {"get_server_url", "get_bootstrap_state", "navigate_to", "trigger_new_chat"}
\* the handlers an event of a shortcut, a menu or the tray runs
EventHandlers == {"trigger_new_chat", "open_settings"}
\* everything that takes a lock of ConfigState
GuardedCommands == LockingCommands \cup ConfigReaders \cup {"open_settings"}

\* the guards of the three RwLocks of ConfigState: a read guard is granted
\* while no thread holds the write guard of the lock, a write guard while no
\* thread holds any guard of it
Locks == {"config", "config_initialized", "app_base_url"}
Guard(l, m) == [lock |-> l, mode |-> m]
CanRead(l) == \A u \in Threads : Guard(l, "write") \notin guards[u]
CanWrite(l) ==
  \A u \in Threads : \A m \in {"read", "write"} : Guard(l, m) \notin guards[u]
ConcUrlInputs == {HTTPS \o <<"a">>, FTP \o <<"a">>}

\* the content of a window invokes a command on a free thread, or an event
\* runs its handler on one
Invoke(t, op, url) ==
  /\ IF op \in EventHandlers THEN pc = "running" ELSE CanInvoke
  /\ threads[t].pc = "idle"
  /\ op \in ConcCommands \cup GuardedCommands
  /\ url # EmptyStr <=> op = "set_server_url"
  /\ threads' = Observed(t, [IdleThread EXCEPT !.op = op, !.pc = "called",
                                               !.url = url],
                         config, config_initialized, file)
  /\ last' = [Step("invoke", url, "-", EmptyStr, FALSE, <<>>) EXCEPT !.origin = op]
  /\ UNCHANGED <<menu, trayMenu, schedules, guards, envVars, storeVars,
                 shellVars, pc, app_base_url>>

\* set_server_url and reset_config up to the assignment: the validation, then
\* config.write(), which waits while another thread holds it, then the new
\* value in memory
LockAndAssign(t) ==
  /\ pc = "running"
  /\ threads[t].op \in LockingCommands
  /\ threads[t].pc = "called"
  /\ IF threads[t].op = "set_server_url" /\ UrlRejected(threads[t].url)
       THEN /\ threads' = Observed(t, Done(threads[t], "Err"), config,
                                   config_initialized, file)
            /\ UNCHANGED <<config, guards>>
       ELSE /\ CanWrite("config")
            /\ guards' = [guards EXCEPT ![t] = @ \cup {Guard("config", "write")}]
            /\ config' =
                 IF threads[t].op = "set_server_url"
                   THEN [config EXCEPT
                           !.server_url = trim_end_matches(threads[t].url, "/")]
                   ELSE AppConfigDefault
            /\ threads' = Observed(t, [threads[t] EXCEPT !.pc = "save"], config',
                                   config_initialized, file)
  /\ last' = [Step("lock_and_assign", threads[t].url, "-", EmptyStr, FALSE, <<>>)
                EXCEPT !.origin = threads[t].op]
  /\ UNCHANGED <<menu, trayMenu, schedules, envVars, file, config_initialized,
                 shellVars, pc, app_base_url>>

\* save_config(&config)? under the write guard: a failure returns and drops
\* the guard
SaveUnderLock(t) ==
  /\ pc = "running"
  /\ threads[t].op \in LockingCommands
  /\ threads[t].pc = "save"
  /\ \E r \in save_config(dirOK, file, config) :
       /\ file' = r.file
       /\ IF r.ok
            THEN /\ threads' = Observed(t, [threads[t] EXCEPT !.pc = "flag"],
                                        config, config_initialized, file')
                 /\ guards' = guards
            ELSE /\ threads' = Observed(t, Done(threads[t], "Err"), config,
                                        config_initialized, file')
                 /\ guards' = [guards EXCEPT ![t] = {}]
  /\ last' = [Step("save_under_lock", threads[t].url, "-", EmptyStr, FALSE, <<>>)
                EXCEPT !.origin = threads[t].op]
  /\ UNCHANGED <<menu, trayMenu, schedules, envVars, config, config_initialized,
                 shellVars, pc, app_base_url>>

\* a return that leaves the write guard of config behind
MarkInitialized_keepsGuard(t) ==
  /\ pc = "running"
  /\ threads[t].op \in LockingCommands
  /\ threads[t].pc = "flag"
  /\ CanWrite("config_initialized")
  /\ config_initialized' = TRUE
  /\ guards' = guards
  /\ threads' = Observed(t, Done([threads[t] EXCEPT !.got_url = config.server_url],
                                 "Ok"),
                         config, TRUE, file)
  /\ last' = [Step("mark_initialized", threads[t].url, "Ok", config.server_url,
                   FALSE, <<>>) EXCEPT !.origin = threads[t].op]
  /\ UNCHANGED <<menu, trayMenu, schedules, envVars, file, config, shellVars, pc,
                 app_base_url>>

\* *config_initialized.write() = true under the guard of config, which waits
\* while a thread holds a guard of config_initialized, then the return, which
\* drops the guard of config
MarkInitialized(t) ==
  /\ pc = "running"
  /\ threads[t].op \in LockingCommands
  /\ threads[t].pc = "flag"
  /\ CanWrite("config_initialized")
  /\ config_initialized' = TRUE
  /\ guards' = [guards EXCEPT ![t] = {}]
  /\ threads' = Observed(t, Done([threads[t] EXCEPT !.got_url = config.server_url],
                                 "Ok"),
                         config, TRUE, file)
  /\ last' = [Step("mark_initialized", threads[t].url, "Ok", config.server_url,
                   FALSE, <<>>) EXCEPT !.origin = threads[t].op]
  /\ UNCHANGED <<menu, trayMenu, schedules, envVars, file, config, shellVars, pc,
                 app_base_url>>

\* open_config_file, the test config_path.exists(); no lock is taken
OpenConfigCheck(t) ==
  /\ pc = "running"
  /\ threads[t].op = "open_config_file"
  /\ threads[t].pc = "called"
  /\ threads' =
       Observed(t, IF ~dirOK THEN Done(threads[t], "Err")
                   ELSE IF PathExists(dirOK, file)
                     THEN [threads[t] EXCEPT !.pc = "open"]
                     ELSE [threads[t] EXCEPT !.pc = "write"],
                config, config_initialized, file)
  /\ last' = [Step("open_config_check", EmptyStr, "-", EmptyStr, FALSE, <<>>)
                EXCEPT !.origin = threads[t].op]
  /\ UNCHANGED <<menu, trayMenu, schedules, guards, envVars, storeVars,
                 shellVars, pc, app_base_url>>

\* open_config_file, save_config(&AppConfig::default())? after the test found
\* no file
OpenConfigWrite(t) ==
  /\ pc = "running"
  /\ threads[t].op = "open_config_file"
  /\ threads[t].pc = "write"
  /\ \E r \in save_config(dirOK, file, AppConfigDefault) :
       /\ file' = r.file
       /\ threads' =
            Observed(t, IF r.ok THEN [threads[t] EXCEPT !.pc = "open"]
                        ELSE Done(threads[t], "Err"),
                     config, config_initialized, file')
  /\ last' = [Step("open_config_write", EmptyStr, "-", EmptyStr, FALSE, <<>>)
                EXCEPT !.origin = threads[t].op]
  /\ UNCHANGED <<menu, trayMenu, schedules, guards, envVars, config,
                 config_initialized, shellVars, pc, app_base_url>>

\* open_config_file, the start of the editor, which may fail
OpenConfigEditor(t) ==
  /\ pc = "running"
  /\ threads[t].op = "open_config_file"
  /\ threads[t].pc = "open"
  /\ \E res \in {"Ok", "Err"} :
       /\ threads' = Observed(t, Done(threads[t], res), config,
                              config_initialized, file)
       /\ last' = [Step("open_config_editor", EmptyStr, res, EmptyStr, FALSE, <<>>)
                     EXCEPT !.origin = threads[t].op]
  /\ UNCHANGED <<menu, trayMenu, schedules, guards, envVars, storeVars,
                 shellVars, pc, app_base_url>>

\* config.read().unwrap().server_url.clone(): waits while a thread holds
\* config.write(), then copies the value under the read guard
ReadServerUrl(t) ==
  /\ pc = "running"
  /\ threads[t].op \in ConfigReaders
  /\ threads[t].pc = "called"
  /\ CanRead("config")
  /\ guards' = [guards EXCEPT ![t] = @ \cup {Guard("config", "read")}]
  /\ threads' = Observed(t, [threads[t] EXCEPT !.pc = "drop",
                                               !.got_url = config.server_url],
                         config, config_initialized, file)
  /\ last' = [Step("read_server_url", EmptyStr, "-", EmptyStr, FALSE, <<>>)
                EXCEPT !.origin = threads[t].op]
  /\ UNCHANGED <<menu, trayMenu, schedules, envVars, storeVars,
                 shellVars, pc, app_base_url>>

\* get_bootstrap_state, *config_initialized.read() and the test of the path:
\* waits while a thread holds config_initialized.write()
ReadInitialized(t) ==
  /\ pc = "running"
  /\ threads[t].op = "get_bootstrap_state"
  /\ threads[t].pc = "read_flag"
  /\ CanRead("config_initialized")
  /\ guards' = [guards EXCEPT ![t] = @ \cup {Guard("config_initialized", "read")}]
  /\ LET config_exists == config_initialized /\ PathExists(dirOK, file) IN
       /\ threads' = Observed(t, [threads[t] EXCEPT !.pc = "drop",
                                                    !.got_flag = config_exists],
                              config, config_initialized, file)
       /\ last' = [Step("read_initialized", EmptyStr, "-", threads[t].got_url,
                        config_exists, <<>>) EXCEPT !.origin = threads[t].op]
  /\ UNCHANGED <<menu, trayMenu, schedules, envVars, storeVars,
                 shellVars, pc, app_base_url>>

\* open_settings, app_base_url.read() and the settings URL made from the
\* value under the read guard: waits while a thread holds app_base_url.write()
ReadBaseUrl(t) ==
  /\ pc = "running"
  /\ threads[t].op = "open_settings"
  /\ threads[t].pc = "called"
  /\ CanRead("app_base_url")
  /\ guards' = [guards EXCEPT ![t] = @ \cup {Guard("app_base_url", "read")}]
  /\ threads' = Observed(t, [threads[t] EXCEPT !.pc = "drop"], config,
                         config_initialized, file)
  /\ last' = [Step("read_base_url", EmptyStr, "-", EmptyStr, FALSE, <<>>)
                EXCEPT !.origin = threads[t].op]
  /\ UNCHANGED <<menu, trayMenu, schedules, envVars, storeVars,
                 shellVars, pc, app_base_url>>

\* the end of the statement that took a read guard drops the guard; the
\* command goes on with the copy, or returns it
DropGuard(t) ==
  /\ pc = "running"
  /\ threads[t].pc = "drop"
  /\ guards' = [guards EXCEPT ![t] = {}]
  /\ LET th == threads[t]
         next ==
           IF th.op = "get_bootstrap_state" /\ Guard("config", "read") \in guards[t]
             THEN [th EXCEPT !.pc = "read_flag"]
           ELSE IF th.op \in {"navigate_to", "trigger_new_chat"}
             THEN [th EXCEPT !.pc = "eval"]
           ELSE IF th.op = "open_settings"
             THEN [th EXCEPT !.pc = "navigate"]
           ELSE Done(th, "Ok")
     IN /\ threads' = Observed(t, next, config, config_initialized, file)
        /\ last' = [Step("drop_guard", EmptyStr, next.res, th.got_url, th.got_flag,
                         <<>>) EXCEPT !.origin = th.op]
  /\ UNCHANGED <<menu, trayMenu, schedules, envVars, storeVars,
                 shellVars, pc, app_base_url>>

\* navigate_to and trigger_new_chat after the read: the main window is told
\* to go to the copy of server_url followed by the path
EvalHref(t) ==
  /\ pc = "running"
  /\ threads[t].op \in {"navigate_to", "trigger_new_chat"}
  /\ threads[t].pc = "eval"
  /\ mainLoc' = IF MAIN \in windows THEN LocHref(threads[t].got_url \o CHAT)
                ELSE mainLoc
  /\ threads' = Observed(t, Done(threads[t], "Ok"), config, config_initialized,
                         file)
  /\ last' = [Step("eval_href", threads[t].got_url \o CHAT, "Ok", EmptyStr, FALSE,
                   <<>>) EXCEPT !.origin = threads[t].op]
  /\ UNCHANGED <<menu, trayMenu, schedules, guards, envVars, storeVars,
                 app_base_url, windows, focused, tasks, pc>>

\* open_settings after the read: the main window is navigated to the
\* settings URL
NavigateMain(t) ==
  /\ pc = "running"
  /\ threads[t].op = "open_settings"
  /\ threads[t].pc = "navigate"
  /\ mainLoc' = open_settings(ShellState).mainLoc
  /\ threads' = Observed(t, Done(threads[t], "Ok"), config, config_initialized,
                         file)
  /\ last' = [Step("navigate_main", EmptyStr, "Ok", EmptyStr, FALSE, <<>>)
                EXCEPT !.origin = threads[t].op]
  /\ UNCHANGED <<menu, trayMenu, schedules, guards, envVars, storeVars,
                 app_base_url, windows, focused, tasks, pc>>

\* the commands on the configuration
StoreNext ==
  \/ main
  \/ get_server_url
  \/ get_bootstrap_state
  \/ \E url \in UrlInputs : set_server_url(url)
  \/ reset_config
  \/ open_config_file

\* the input of set_server_url explored together with the window events: the
\* one whose stored form is no URL (the server_url of a fresh process is one)
ShellUrlInputs == {HTTP}

\* the window commands and the menu, tray and shortcut events, with the one
\* command that changes the server_url they read
ShellNext ==
  \/ main
  \/ \E url \in ShellUrlInputs : set_server_url(url)
  \/ new_window
  \/ \E w \in windows, path \in NavPaths : navigate_to(w, path)
  \/ \E id \in MenuItemIds : MenuEvent(id)
  \/ \E id \in TrayItemIds : TrayMenuEvent(id)
  \/ TrayIconClick
  \/ TrayQuit
  \/ \E s \in shortcuts(platform) : ShortcutFired(s)
  \/ \E i \in 1..Len(tasks) : NewWindowTask(i)
  \/ \E w \in windows : CloseWindow(w)

\* the menu, tray and shortcut events and the window tasks they spawn, on the
\* configuration found at startup
EventNext ==
  \/ main
  \/ \E id \in MenuItemIds : MenuEvent(id)
  \/ \E id \in TrayItemIds : TrayMenuEvent(id)
  \/ TrayIconClick
  \/ TrayQuit
  \/ \E s \in shortcuts(platform) : ShortcutFired(s)
  \/ \E i \in 1..Len(tasks) : NewWindowTask(i)
  \/ \E w \in windows : CloseWindow(w)

\* the main window, its page loads and the titlebar injection started at
\* setup
InjectNext ==
  \/ main
  \/ \E w \in windows : PageLoad(w)
  \/ \E s \in schedules : InjectStep(s)
  \/ \E w \in windows : CloseWindow(w)

\* the application menu: its setup, its events and the windows they open
MenuNext ==
  \/ main
  \/ SetupAppMenu
  \/ \E id \in MenuItemIds : MenuEvent(id)
  \/ \E i \in 1..Len(tasks) : NewWindowTask(i)
  \/ \E w \in windows : CloseWindow(w)

\* the configuration commands as concurrent threads
ConcNext ==
  \/ main
  \/ \E t \in Threads, op \in ConcCommands, url \in ConcUrlInputs \cup {EmptyStr} :
       Invoke(t, op, url)
  \/ \E t \in Threads : LockAndAssign(t)
  \/ \E t \in Threads : SaveUnderLock(t)
  \/ \E t \in Threads : MarkInitialized(t)
  \/ \E t \in Threads : OpenConfigCheck(t)
  \/ \E t \in Threads : OpenConfigWrite(t)
  \/ \E t \in Threads : OpenConfigEditor(t)
  \/ \E t \in Threads : ReadServerUrl(t)
  \/ \E t \in Threads : ReadInitialized(t)
  \/ \E t \in Threads : DropGuard(t)

\* a step of the command thread t runs
ThreadStep(t) ==
  \/ LockAndAssign(t)
  \/ SaveUnderLock(t)
  \/ MarkInitialized(t)
  \/ ReadServerUrl(t)
  \/ ReadInitialized(t)
  \/ ReadBaseUrl(t)
  \/ DropGuard(t)
  \/ EvalHref(t)
  \/ NavigateMain(t)

\* the commands and event handlers that take a lock, as concurrent threads
LockNext ==
  \/ main
  \/ \E t \in Threads, op \in GuardedCommands, url \in ConcUrlInputs \cup {EmptyStr} :
       Invoke(t, op, url)
  \/ \E t \in Threads : LockAndAssign(t)
  \/ \E t \in Threads : SaveUnderLock(t)
  \/ \E t \in Threads : MarkInitialized(t)
  \/ \E t \in Threads : ReadServerUrl(t)
  \/ \E t \in Threads : ReadInitialized(t)
  \/ \E t \in Threads : ReadBaseUrl(t)
  \/ \E t \in Threads : DropGuard(t)
  \/ \E t \in Threads : EvalHref(t)
  \/ \E t \in Threads : NavigateMain(t)

\* the time a task has slept when it reaches the k-th delay of the table
RECURSIVE Slept(_)
Slept(k) == IF k <= 1 THEN 0 ELSE Slept(k - 1) + delays[k - 1]

\* every state an inject_titlebar task can be in
AllSchedules ==
  {[window |-> w, step |-> k, elapsed |-> Slept(k)] :
     w \in {MAIN} \cup SecondaryLabels, k \in DOMAIN delays}

\* the windows of a macOS process and the titlebar injection, with at most
\* MaxSchedules tasks and one secondary window at a time
ScheduleNext ==
  \/ main
  \/ (Cardinality(schedules) < MaxSchedules /\ windows = {MAIN} /\ new_window)
  \/ \E s \in AllSchedules : InjectStep(s)
  \/ \E w \in windows : CloseWindow(w)

\* The shell events read the configuration and never write it, and the
\* configuration commands never touch the windows, so the properties of each
\* side are checked on its own projection (SpecStore, SpecShell); the full
\* product below has several million states.
Next == StoreNext \/ ShellNext

Spec == Init /\ [][Next]_vars

SpecStore == Init /\ [][StoreNext]_vars

\* a process that starts without a config file, on the default menu
InitShell == Init /\ file = FileAbsent /\ menu = DefaultMenu

SpecShell == InitShell /\ [][ShellNext]_vars

SpecEvents == InitShell /\ [][EventNext]_vars

SpecInject == InitShell /\ [][InjectNext]_vars

\* a macOS process with its main window; the runtime runs every task that
\* is ready
InitSchedule == InitShell /\ platform = "macos" /\ dirOK /\ MAIN \in windows

SpecSchedule ==
  /\ InitSchedule
  /\ [][ScheduleNext]_vars
  /\ \A s \in AllSchedules : WF_vars(InjectStep(s))

\* a process that starts without a config file, on any host menu
InitMenu == Init /\ file = FileAbsent

SpecMenu == InitMenu /\ [][MenuNext]_vars

SpecConc == InitShell /\ [][ConcNext]_vars

\* a process with its main window and its config directory; the scheduler
\* runs every thread that can take a step
InitLocks == InitShell /\ platform = "linux" /\ dirOK /\ MAIN \in windows

SpecLocks ==
  /\ InitLocks
  /\ [][LockNext]_vars
  /\ \A t \in Threads : WF_vars(ThreadStep(t))

\* ------------------------------------------------------------ properties
\* the input passes the scheme check
AcceptedInput(u) == StartsWith(u, HTTP) \/ StartsWith(u, HTTPS)

\* the input without the "/" characters at its end
Stripped(u) == SubSeq(u, 1, Len(u) - TrailingCount(u, "/"))

\* C1: a set_server_url whose input starts with neither "http://" nor
\* "https://" returns an error and leaves the in-memory configuration, the
\* persisted configuration and config_initialized as they were.
C1_RejectedInputChangesNothing ==
  [][(last'.op = "set_server_url" /\ ~AcceptedInput(last'.url))
       => /\ last'.res = "Err"
          /\ config' = config
          /\ file' = file
          /\ config_initialized' = config_initialized]_vars

\* a rejected call made when a custom URL is held in memory and on disk
C1_Witness ==
  /\ last.op = "set_server_url"
  /\ ~AcceptedInput(last.url)
  /\ last.res = "Err"
  /\ config.server_url = HTTP \o <<"a">>
  /\ file = Serialize(config)
  /\ config_initialized

\* C2: once the process has started, the stored server_url is non-empty,
\* starts with "http://" or "https://" and has no "/" at its end.
C2_StoredUrlWellFormed ==
  pc # "start" =>
    /\ config.server_url # <<>>
    /\ AcceptedInput(config.server_url)
    /\ TrailingCount(config.server_url, "/") = 0

\* C3: after a set_server_url whose accepted input ends with "/" characters,
\* the stored server_url ends with none of them, and a successful call returns
\* the stored value, which is also the persisted one.
C3_AllTrailingSlashesRemoved ==
  [][(/\ last'.op = "set_server_url"
      /\ AcceptedInput(last'.url)
      /\ TrailingCount(last'.url, "/") >= 1)
       => /\ TrailingCount(config'.server_url, "/") = 0
          /\ config'.server_url = Stripped(last'.url)
          /\ last'.res = "Ok" =>
               /\ last'.out_url = config'.server_url
               /\ file'.kind = "json"
               /\ file'.server_url = config'.server_url]_vars

\* a successful call whose input ends with two or more "/"
C3_Witness ==
  /\ last.op = "set_server_url"
  /\ last.res = "Ok"
  /\ TrailingCount(last.url, "/") >= 2
  /\ Len(Stripped(last.url)) > Len(HTTPS)
  /\ last.out_url = config.server_url

\* C4: get_bootstrap_state called right after the start of a process that
\* found no config file returns the default server_url and config_exists =
\* FALSE; called right after a successful set_server_url(u) it returns u
\* without its trailing slashes and config_exists = TRUE.
C4_BootstrapState ==
  [][/\ (/\ last.op = "main"
         /\ ~PathExists(dirOK, file)
         /\ last'.op = "get_bootstrap_state")
          => /\ last'.out_url = DEFAULT_SERVER_URL
             /\ last'.out_flag = FALSE
     /\ (/\ last.op = "set_server_url"
         /\ last.res = "Ok"
         /\ last'.op = "get_bootstrap_state")
          => /\ last'.out_url = Stripped(last.url)
             /\ last'.out_flag = TRUE]_vars

\* get_bootstrap_state has answered after a set_server_url changed the URL
C4_Witness ==
  /\ last.op = "get_bootstrap_state"
  /\ last.out_flag = TRUE
  /\ last.out_url = HTTPS \o <<"a">>

\* C5: after a successful reset_config the in-memory and the persisted
\* configuration are the compiled-in defaults, and a get_bootstrap_state that
\* follows reports the default server_url and config_exists = TRUE.
C5_ResetRestoresDefaults ==
  [][/\ (last'.op = "reset_config" /\ last'.res = "Ok")
          => /\ config' = [server_url |-> DEFAULT_SERVER_URL,
                           window_title |-> "Onyx"]
             /\ file' = FileJson({"server_url", "window_title"},
                                 DEFAULT_SERVER_URL, "Onyx")
     /\ (/\ last.op = "reset_config"
         /\ last.res = "Ok"
         /\ last'.op = "get_bootstrap_state")
          => /\ last'.out_url = DEFAULT_SERVER_URL
             /\ last'.out_flag = TRUE]_vars

\* a successful reset: memory, file and flag after it
C5_Witness ==
  /\ last.op = "reset_config"
  /\ last.res = "Ok"
  /\ config = AppConfigDefault
  /\ file = Serialize(AppConfigDefault)
  /\ config_initialized

\* C6: when the save fails inside set_server_url (accepted input) or
\* reset_config the command returns an error, the in-memory configuration
\* holds the new value and config_initialized is as it was before the call;
\* a command that returns Ok has persisted the in-memory configuration.
C6_FailedSaveKeepsNewValue ==
  [][/\ (/\ last'.op = "set_server_url"
         /\ AcceptedInput(last'.url)
         /\ last'.res = "Err")
          => /\ config' = [config EXCEPT !.server_url = Stripped(last'.url)]
             /\ config_initialized' = config_initialized
     /\ (last'.op = "reset_config" /\ last'.res = "Err")
          => /\ config' = AppConfigDefault
             /\ config_initialized' = config_initialized
     /\ (last'.op \in {"set_server_url", "reset_config"} /\ last'.res = "Ok")
          => file' = Serialize(config')]_vars

\* a set_server_url that failed to save: the new value is in memory, not on
\* disk, and the flag is still unset
C6_Witness ==
  /\ last.op = "set_server_url"
  /\ AcceptedInput(last.url)
  /\ last.res = "Err"
  /\ config.server_url = Stripped(last.url)
  /\ file # Serialize(config)
  /\ ~config_initialized

\* C7: the startup load yields the defaults and existed = FALSE when the
\* config directory is not resolvable or the file is absent, unreadable or
\* not parseable, and existed = TRUE only for a file that was read and parsed,
\* whose values it then returns; the process runs in every case.
C7_LoadDegradesToDefaults ==
  last.op = "main" =>
    /\ pc = "running"
    /\ (\/ ~dirOK
        \/ file.kind \in {"absent", "unreadable", "malformed"}
        \/ "server_url" \notin file.keys)
         => (config = AppConfigDefault /\ ~config_initialized)
    /\ config_initialized
         => /\ dirOK
            /\ file.kind = "json"
            /\ "server_url" \in file.keys
            /\ config.server_url = file.server_url

\* a start on a file that is there and cannot be parsed
C7_Witness ==
  /\ last.op = "main"
  /\ dirOK
  /\ file.kind = "malformed"
  /\ config = AppConfigDefault
  /\ ~config_initialized

\* the events whose handler runs the shell actions in last.actions
DispatchOps == {"menu", "tray", "tray_click", "shortcut"}

\* a sequence holds the value x
Holds(seq, x) == \E i \in 1..Len(seq) : seq[i] = x

\* C8 as stated: a window-creation task spawned by focus_main for want of a
\* main window ends with one new window that has the focus, never with none.
C8_AlwaysOneWindowFocused ==
  (last.op = "window_task" /\ last.origin = "focus_main")
    => /\ last.res = "built"
       /\ last.window \in windows
       /\ focused = last.window

\* C8 amended: focus_main without a main window spawns exactly one
\* window-creation task on a copy of the stored server_url and focuses
\* nothing itself; when that task runs it adds exactly one window and gives
\* it the focus if the copied server_url parses and the build succeeds, and
\* otherwise (panic on the parse, failed build) adds and focuses none.
C8_OneWindowUnlessCreationFails ==
  [][/\ (/\ last'.op \in DispatchOps
         /\ Holds(last'.actions, "focus_main")
         /\ MAIN \notin windows)
          => /\ Len(tasks') = Len(tasks) + 1
             /\ tasks'[Len(tasks')] =
                  [url |-> config.server_url, origin |-> "focus_main"]
             /\ windows' = windows
             /\ focused' = focused
     /\ (last'.op = "window_task" /\ last'.origin = "focus_main")
          => /\ Len(tasks') = Len(tasks) - 1
             /\ \/ /\ last'.res = "built"
                   /\ UrlParses(last'.url)
                   /\ last'.window \notin windows
                   /\ windows' = windows \cup {last'.window}
                   /\ focused' = last'.window
                \/ /\ last'.res = "failed"
                   /\ UrlParses(last'.url)
                   /\ windows' = windows
                   /\ focused' = focused
                \/ /\ last'.res = "panicked"
                   /\ ~UrlParses(last'.url)
                   /\ windows' = windows
                   /\ focused' = focused]_vars

\* the task of a focus_main has built and focused a window while there is no
\* main window
C8_Witness ==
  /\ last.op = "window_task"
  /\ last.origin = "focus_main"
  /\ last.res = "built"
  /\ MAIN \notin windows
  /\ focused = last.window
  /\ last.window \in windows

\* C9: a failure while a secondary window is opened (by the spawned task
\* or by the new_window command) is swallowed: nothing panics, the process
\* keeps running, no window is added and ConfigState is as it was.
C9_FailureIsSwallowed ==
  [][(\/ (last'.op = "window_task" /\ last'.res # "built")
      \/ (last'.op = "new_window" /\ last'.res = "Err"))
       => /\ last'.res # "panicked"
          /\ pc' = "running"
          /\ windows' = windows
          /\ config' = config
          /\ config_initialized' = config_initialized
          /\ app_base_url' = app_base_url]_vars

Range(seq) == {seq[i] : i \in 1..Len(seq)}

EntryPointActions(os) ==
  UNION ({Range(on_menu_event(id)) : id \in MenuItemIds}
         \cup {Range(handle_tray_menu_event(id)) : id \in TrayItemIds}
         \cup {Range(on_shortcut(c, h)) : c \in shortcuts(os), h \in BOOLEAN}
         \cup {TrayPredefined})

\* C10: every id a menu item, a tray item or a registered shortcut carries
\* has a dispatch arm, every dispatch arm is carried by some item, and every
\* shell action of the router is run by at least one entry point of the
\* platform.
C10_NoDeadOrOrphanedActions ==
  pc = "running" =>
    /\ MenuItemIds \subseteq MenuArms
    /\ TrayItemIds \subseteq TrayArms
    /\ \A c \in shortcuts(platform) : on_shortcut(c, TRUE) # <<>>
    /\ MenuArms \subseteq MenuItemIds
    /\ TrayArms \subseteq TrayItemIds
    /\ ShellActions \subseteq EntryPointActions(platform)

\* the chords a handler may be handed: the seven of setup_shortcuts and one
\* that is bound to nothing
AllChords ==
  {new_chat, reload, back, forward, new_window_shortcut, show_app,
   open_settings_shortcut, Shortcut({"SUPER"}, "KeyQ")}

\* the chords the handler of setup_shortcuts acts on
HandlerChords ==
  {c \in AllChords : \E h \in BOOLEAN : on_shortcut(c, h) # <<>>}

\* C11: every fired chord runs exactly one shell action, the
\* registered chords are the chords the handler dispatches on, and the reload
\* chord is not registered on macOS.
C11_ExactlyOneActionPerChord ==
  /\ last.op = "shortcut" => Len(last.actions) = 1
  /\ pc = "running" =>
       /\ shortcuts(platform) = HandlerChords
       /\ platform = "macos" => reload \notin shortcuts(platform)

\* C12: a dispatch that directly repeats the one before it leaves
\* the window surfaces (live or being created) and ConfigState as the first
\* one left them.
C12_RepeatedDispatchChangesNothing ==
  [][(/\ last.op \in DispatchOps
      /\ last'.op = last.op
      /\ last'.actions = last.actions
      /\ last'.chord = last.chord)
       => /\ windows' = windows
          /\ tasks' = tasks
          /\ config' = config
          /\ config_initialized' = config_initialized
          /\ app_base_url' = app_base_url]_vars


\* the "show in menu bar" item of the tray menu
ShowInBar ==
  trayMenu[CHOOSE k \in DOMAIN trayMenu :
             trayMenu[k].id = TRAY_MENU_SHOW_IN_BAR_ID]

\* C16: once the tray menu is built, its "show in menu bar" item is checked
\* and disabled, whatever tray menu events and tray icon clicks have happened
\* since.
C16_ShowInBarCheckedAndDisabled ==
  pc # "start" =>
    /\ \E k \in DOMAIN trayMenu : trayMenu[k].id = TRAY_MENU_SHOW_IN_BAR_ID
    /\ ShowInBar.checked
    /\ ~ShowInBar.enabled

\* a tray menu event has just been handled after a tray icon click spawned a
\* window, and the item is as it was built
C16_Witness ==
  /\ last.op = "tray"
  /\ \E i \in DOMAIN tasks : tasks[i].origin = "focus_main"
  /\ ShowInBar = build_tray_menu[3]

\* a config file that parses as an AppConfig
WellFormed(f) == f.kind = "json" /\ "server_url" \in f.keys

\* C17: whenever the config file is well formed, loading it, saving what was
\* loaded and loading again yields the configuration of the first load, also
\* when the file has no window_title and the default title was filled in.
C17_LoadSaveLoadRoundTrip ==
  (dirOK /\ WellFormed(file)) =>
    LET first == load_config(dirOK, file) IN
      /\ first.existed
      /\ \A o \in save_config(dirOK, file, first.config) :
           o.ok => load_config(dirOK, o.file) = first

\* the process has loaded a file without window_title, the default title was
\* filled in, and a save of the loaded configuration reloads to it
C17_Witness ==
  /\ last.op = "main"
  /\ dirOK
  /\ WellFormed(file)
  /\ "window_title" \notin file.keys
  /\ config = load_config(dirOK, file).config
  /\ config.window_title = default_window_title
  /\ \E o \in save_config(dirOK, file, config) :
       o.ok /\ o.file # file /\ load_config(dirOK, o.file).config = config

\* the commands that write the config file
WritingCommands == {"set_server_url", "reset_config", "open_config_file"}

\* C18: config_initialized is true after a startup that found a config file,
\* malformed or not, and after any command (set_server_url, reset_config,
\* open_config_file creating the default file) has written the file; once
\* true it stays true.
C18_InitializedOnceSeenOrWritten ==
  [][/\ (last'.op = "main" /\ PathExists(dirOK, file)) => config_initialized'
     /\ (last'.op \in WritingCommands /\ file' # file /\ WellFormed(file'))
          => config_initialized'
     /\ config_initialized => config_initialized']_vars

\* C13: the k-th injection of a schedule fires delays[k] time units after the
\* schedule was started (0, 200, 600, ... 10000), so the ninth fires at 10000.
C13_InjectionsFireAtTableTimes ==
  last.op = "inject" => last.time = delays[last.step]

\* the schedule of a window at its first turn
FreshSchedule(w) == [window |-> w, step |-> 1, elapsed |-> 0]

C15_MenuItemsNotDuplicated ==
  pc # "start" =>
    LET f == FindFile(menu)
        h == MenuGet(menu, HELP_SUBMENU_ID)
    IN /\ f # 0
       /\ h # 0
       /\ \A id \in {"new_chat", "new_window", "open_settings"} :
            Occurrences(menu[f].items, id) = 1
       /\ Occurrences(menu[h].items, "open_docs") = 1

\* every command that was invoked has returned, and returned Ok
AllReturnedOk ==
  /\ \E t \in Threads : threads[t].pc = "done"
  /\ \A t \in Threads :
       \/ threads[t].pc = "idle"
       \/ threads[t].pc = "done" /\ threads[t].res = "Ok"

\* C19: when concurrent set_server_url, reset_config and open_config_file
\* commands have all returned successfully, the configuration in the file is
\* the configuration in memory.
C19_PersistedEqualsInMemory ==
  (/\ AllReturnedOk
   /\ \A t \in Threads : threads[t].op # "get_bootstrap_state")
    => /\ WellFormed(file)
       /\ load_config(dirOK, file).config = config

\* C20: the pair get_bootstrap_state returns is a pair the store held at one
\* instant between the call and the return.
C20_BootstrapPairIsSnapshot ==
  \A t \in Threads :
    (threads[t].op = "get_bootstrap_state" /\ threads[t].pc = "done")
      => [server_url |-> threads[t].got_url,
          config_exists |-> threads[t].got_flag] \in threads[t].snaps

\* C23: navigate_settings sends the main window to the cached base URL with
\* the query cleared, the path "/" and the fragment "settings", or to
\* tauri://localhost/#settings when no base URL was captured; without a main
\* window it changes nothing (no window is created, focused or navigated);
\* it never changes the cached base URL.
C23_NavigateSettings ==
  [][(last'.op \in DispatchOps /\ last'.actions = <<"navigate_settings">>)
       => /\ app_base_url' = app_base_url
          /\ windows' = windows
          /\ tasks' = tasks
          /\ focused' = focused
          /\ IF MAIN \in windows
               THEN /\ mainLoc'.kind = "url"
                    /\ mainLoc'.url =
                         (IF app_base_url.some
                            THEN [app_base_url.url EXCEPT !.query = "",
                                                          !.path = "/",
                                                          !.fragment = "settings"]
                            ELSE Url("tauri", "localhost", "/", "", "settings"))
               ELSE mainLoc' = mainLoc]_vars

\* the settings item has sent the main window to the settings page of the
\* captured base URL
C23_Witness ==
  /\ last.op \in DispatchOps
  /\ last.actions = <<"navigate_settings">>
  /\ MAIN \in windows
  /\ app_base_url.some
  /\ mainLoc = LocUrl(Url(app_base_url.url.scheme, app_base_url.url.host, "/",
                          "", "settings"))

\* the attempt a task in state s makes has just been made
Attempted(s) ==
  /\ last.op = "inject"
  /\ last.window = s.window
  /\ last.step = s.step
  /\ last.time = s.elapsed + delays[s.step]

\* C22: every started injection schedule makes its nine attempts in table
\* order and then ends.  A task that is at the k-th entry of the table stays
\* there until it makes attempt k, whether the window is still there or not;
\* after attempt k it is at entry k + 1, and after the ninth it is gone; no
\* step of anything else, a newer task for the same window included, removes
\* it or moves it; and every task at entry k does make attempt k.
C22_SchedulesRunToCompletion ==
  /\ [][\A s \in schedules :
          \/ s \in schedules'
          \/ /\ Attempted(s)'
             /\ IF s.step < Len(delays)
                  THEN [s EXCEPT !.step = @ + 1,
                                 !.elapsed = @ + delays[s.step]] \in schedules'
                  ELSE last'.step = Len(delays)]_vars
  /\ \A s \in AllSchedules : (s \in schedules) ~> Attempted(s)

\* the ninth attempt of a task has failed because its window was closed,
\* while a newer task for the same label is still running
C22_Witness ==
  /\ last.op = "inject"
  /\ last.step = Len(delays)
  /\ last.res = "failed"
  /\ \E s \in schedules : s.window = last.window

\* a command that was called and has not returned
Running(t) == threads[t].pc \notin {"idle", "done"}

\* C21: under any interleaving of the commands and event handlers that take
\* the config, config_initialized and app_base_url locks, a thread only holds
\* guards while its command runs, a thread that waits for a lock waits for a
\* thread that can take a step, and every command that was called returns.
C21_NoDeadlock ==
  /\ [](\A t \in Threads :
          /\ guards[t] # {} => Running(t)
          /\ (Running(t) /\ ~ENABLED ThreadStep(t))
               => \E u \in Threads \ {t} : guards[u] # {} /\ ENABLED ThreadStep(u))
  /\ \A t \in Threads : Running(t) ~> (threads[t].pc = "done")

\* a set_server_url or reset_config holds the write guard of config and waits
\* for config_initialized, which a get_bootstrap_state holds
C21_Witness ==
  \E t, u \in Threads :
    /\ threads[t].op \in LockingCommands /\ threads[t].pc = "flag"
    /\ Guard("config", "write") \in guards[t]
    /\ Guard("config_initialized", "read") \in guards[u]
    /\ ~ENABLED ThreadStep(t)
====
